---- MODULE Spec2Model ----
(***************************************************************************)
(* Sampling and batching engine of SensatUrbanDataset                      *)
(* (datasets/tf_sensaturban_dataset.py).                                   *)
(*                                                                         *)
(* Conventions of the model                                                *)
(*  - Python lists and numpy arrays are sequences; Python's 0-based index  *)
(*    k is the sequence position k+1, so "lowest index" keeps its meaning. *)
(*  - Clouds are point sets on a line (one coordinate per point); the      *)
(*    Gaussian noise added to a center point is drawn from Noise.          *)
(*  - A potential p is the integer p * in_radius^4 * PotUnit, so that the  *)
(*    Tukey weight (1 - d2/r2)^2 is the integer (r2 - d2)^2 * PotUnit and  *)
(*    the initial values rand() * 1e-3 are the integers below FreshBound.  *)
(*  - batch_limit is the float returned by calibrate_batches.  It is only  *)
(*    ever compared with integers and truncated by int(), so it is kept as *)
(*    its whole part and a flag telling whether it has a fractional part.  *)
(*  - A generator instance advances one Region draw at a time; the batch   *)
(*    it yields in a draw is appended to emitted[g].                       *)
(***************************************************************************)
EXTENDS Integers, Sequences, FiniteSets, TLC

VARIABLES
    config,            \* epoch_steps, validation_size, batch_size (self.*)
    batch_limit,       \* self.batch_limit: [whole, frac]
    input_trees,       \* self.input_trees[split][cloud] = point coordinates
    potentials,        \* self.potentials[split][cloud][point]
    min_potentials,    \* self.min_potentials[split][cloud]
    gen,               \* per generator instance: position and accumulators
    drawn,             \* history: the Regions drawn in the current pass
    emitted,           \* history: the Batches yielded in the current pass
    npass,             \* history: number of passes started per generator
    touched,           \* history: generators that drew on a split's field
    ncalls,            \* number of generator starts and calibration calls
    ndraws,            \* number of Region draws made by all generators
    neighborhood_limits,  \* self.neighborhood_limits
    cal,               \* calibrate_neighbors' loop: pc, neighb_hists, epoch,
                       \* training_step
    call,              \* the last get_batch_gen call: its number, its split
                       \* argument and the exception it raised
    bc,                \* calibrate_batches' locals: pc, tree, sizes, lim,
                       \* max_b, estim_b, i
    seg                \* tf_segmentation_inputs' locals: pc, dt, the lists

vars == <<config, batch_limit, input_trees, potentials, min_potentials,
          gen, drawn, emitted, npass, touched, ncalls, ndraws,
          neighborhood_limits, cal, call, bc, seg>>

\* the frames of the calls that are not in progress
idle == <<call, bc, seg>>

(***************************************************************************)
(* Bounds of the model.                                                    *)
(***************************************************************************)
MaxInitPot == 1     \* initial potentials are drawn from 0..MaxInitPot
MaxLimit == 2       \* whole part of batch_limit ranges over 1..MaxLimit
MaxCalls == 3       \* generator starts plus calibrate_neighbors calls
MaxDraws == 3       \* Region draws, all generators together
MaxCalibSteps == 4  \* batches a calibration pass can deliver
HistInc == 10       \* points a batch adds to a bucket of a histogram
SampleTotal == 2    \* calibrate_batches samples SampleTotal \div clouds + 1
                    \* points of a cloud (10000 // clouds + 1 in the source)
MaxBatchSize == 2   \* batch_size of calibrate_batches ranges over 1..MaxBatchSize
MaxCtrlSteps == 4   \* controller iterations whose random batch is explored
MaxDownsample == 3  \* downsample_times ranges over 0..MaxDownsample
MaxStack == 2       \* a batch has 1..MaxStack stacks of 1..MaxStack points

(***************************************************************************)
(* Configuration and data.                                                 *)
(***************************************************************************)
in_radius == 2
PotUnit == 1000
density_parameter == 5
num_layers == 2
\* calibrate_neighbors(keep_ratio=0.8, samples_threshold=...): 0.8 is
\* KeepNum / KeepDen
KeepNum == 4
KeepDen == 5
samples_threshold == 100
\* number of buckets of a neighbor-count histogram (line 644)
hist_n == 4
R2 == in_radius * in_radius
FreshBound == (R2 * R2 * PotUnit) \div 1000
Noise == {-1, 1}

\* values of calibrate_batches' float result: 1.0, 2.5, 3.0, 4.5, ...
BatchLimits == {[whole |-> w, frac |-> (w % 2 = 0)] : w \in 1..MaxLimit}

Splits == {"training", "validation", "test"}
MainGens == {"train", "val", "test"}
Gens == MainGens \cup {"calib"}

MainConfig == [epoch_steps |-> 2, validation_size |-> 1, batch_size |-> 1]
MainTrees == [training   |-> << <<0, 1, 3>>, <<0>> >>,
              validation |-> << <<0>> >>,
              test       |-> << <<0>> >>]

\* self.input_colors / self.input_labels / self.label_to_idx: per-point data
InputColor(split, cloud_ind, k) == k % 2
InputLabel(split, cloud_ind, k) == 10 + (k % 3)
LabelToIdx(l) == l - 10

\* self.neighborhood_limits as the constructor leaves it (lines 94-95)
InitialLimits ==
    [l \in 1..5 |-> (<<26, 31, 38, 41, 39>>[l] * density_parameter) \div 5]

CalIdle == [pc |-> "idle", neighb_hists |-> <<>>, epoch |-> 0, training_step |-> 0]

\* no get_batch_gen call made yet, besides the constructor's
NoCall == [n |-> 0, arg |-> "training", raised |-> "none"]

\* a float of calibrate_batches as the rational num / den
Rat(num, den) == [num |-> num, den |-> den]

BcIdle == [pc |-> "idle", tree |-> 0, samples |-> <<>>, sizes |-> <<>>,
           lim |-> Rat(0, 1), max_b |-> 0, estim_b |-> Rat(0, 1), i |-> 0]

SegIdle == [pc |-> "idle", downsample_times |-> 0, dt |-> 0, subsamplings |-> 0,
            r |-> 0, dl |-> 0, stacks_lengths |-> <<>>, input_points |-> <<>>,
            input_neighbors |-> <<>>, input_pools |-> <<>>,
            input_upsamples |-> <<>>, input_batches_len |-> <<>>]

(***************************************************************************)
(* numpy helpers.                                                          *)
(***************************************************************************)
RECURSIVE ArgMinFrom(_, _, _)
ArgMinLastFrom(s, k, best) ==
    IF k > Len(s) THEN best
    ELSE ArgMinFrom(s, k + 1, IF s[k] <= s[best] THEN k ELSE best)
\* np.argmin scanning left to right: a later element replaces the best one
\* only when it is strictly smaller, so the first minimum wins
ArgMinFrom(s, k, best) ==
    IF k > Len(s) THEN best
    ELSE ArgMinFrom(s, k + 1, IF s[k] < s[best] THEN k ELSE best)

ArgMin(s) == ArgMinFrom(s, 2, 1)

\* np.min
Min(s) == s[ArgMin(s)]

RECURSIVE SortedSeq(_)
\* an index array: the indices of S as rows (in increasing order)
SortedSeq(S) ==
    IF S = {} THEN <<>>
    ELSE LET m == CHOOSE x \in S : \A y \in S : x <= y
         IN  <<m>> \o SortedSeq(S \ {m})

RECURSIVE Concat(_)
\* np.concatenate(list, axis=0)
Concat(l) == IF l = <<>> THEN <<>> ELSE Head(l) \o Concat(Tail(l))

RECURSIVE SumSeq(_)
SumSeq(s) == IF s = <<>> THEN 0 ELSE Head(s) + SumSeq(Tail(s))

(***************************************************************************)
(* get_batch_gen: parameters and reset of the potentials.                  *)
(***************************************************************************)
\* the split a generator instance was built for
CalibSplit == IF Len(input_trees["training"]) > 0 THEN "training" ELSE "test"

GenSplit(g) ==
    CASE g = "train" -> "training"
      [] g = "val"   -> "validation"
      [] g = "test"  -> "test"
      [] g = "calib" -> CalibSplit

EpochNSwapped(split) ==
    IF split = "training" THEN config.validation_size * config.batch_size
    ELSE config.epoch_steps * config.batch_size
\* epoch_n (lines 234-243)
EpochN(split) ==
    IF split = "training" THEN config.epoch_steps * config.batch_size
    ELSE config.validation_size * config.batch_size

\* The outcomes of np.random.rand() * 1e-3 that are explored: all values of
\* 0..MaxInitPot for the training clouds, where ties and orderings between
\* points and clouds matter, and one value for the single-point clouds.
InitVals(split) == IF split = "training" THEN 0..MaxInitPot ELSE {0}

\* all outcomes of [np.random.rand(n) * 1e-3 for each tree] (lines 253-257)
FreshPotentials(split, trees) ==
    LET Arrs == UNION {[1..Len(trees[c]) -> InitVals(split)] : c \in 1..Len(trees)}
    IN  {p \in [1..Len(trees) -> Arrs] :
            \A c \in 1..Len(trees) : Len(p[c]) = Len(trees[c])}

MinOfEach(pots) == [c \in 1..Len(pots) |-> Min(pots[c])]

EmptyLists == [p_list |-> <<>>, c_list |-> <<>>, pl_list |-> <<>>,
               pi_list |-> <<>>, ci_list |-> <<>>, batch_n |-> 0]

NewGen == [pc |-> "ready", i |-> 0, lists |-> EmptyLists]
NoGen == [pc |-> "none", i |-> 0, lists |-> EmptyLists]

(***************************************************************************)
(* spatially_regular_gen: one Region draw.                                 *)
(***************************************************************************)
\* KDTree.query_radius(pick_point, r)[0]
RadiusQuery(points, pick_point) ==
    {k \in 1..Len(points) :
        (points[k] - pick_point) * (points[k] - pick_point) <= R2}

Dist2(points, k, pick_point) ==
    (points[k] - pick_point) * (points[k] - pick_point)

\* tukeys = np.square(1 - dists / r^2); tukeys[dists > r^2] = 0
Tukey(d2) == IF d2 > R2 THEN 0 ELSE (R2 - d2) * (R2 - d2) * PotUnit

UpdatePotentialsEverywhere(pot, inds, points, pick_point) ==
    [k \in 1..Len(pot) |->
        IF k \in inds THEN pot[k] + Tukey(Dist2(points, k, pick_point))
        ELSE pot[k] + PotUnit]
AssignPotentials(pot, inds, points, pick_point) ==
    [k \in 1..Len(pot) |->
        IF k \in inds THEN Tukey(Dist2(points, k, pick_point)) ELSE pot[k]]
\* self.potentials[split][cloud_ind][input_inds] += tukeys
UpdatePotentials(pot, inds, points, pick_point) ==
    [k \in 1..Len(pot) |->
        IF k \in inds THEN pot[k] + Tukey(Dist2(points, k, pick_point))
        ELSE pot[k]]

RefreshMinNever(mins, cloud_ind, pot) == mins
\* self.min_potentials[split][cloud_ind] = float(np.min(potentials of the cloud))
RefreshMin(mins, cloud_ind, pot) == [mins EXCEPT ![cloud_ind] = Min(pot)]

\* n > self.batch_limit, for an integer n
Exceeds(n, limit) == n > limit.whole

\* the arrays of k distinct elements of inds, in any order
Choices(inds, k) ==
    {q \in [1..k -> inds] : \A a, b \in 1..k : a # b => q[a] # q[b]}

SubsampleFull(inds, limit) ==
    IF Exceeds(Cardinality(inds), limit)
    THEN Choices(inds, limit.whole)
    ELSE {SortedSeq(inds)}
\* if n > self.batch_limit:
\*     input_inds = np.random.choice(input_inds, int(batch_limit) - 1, replace=False)
\* int() of a negative budget minus one is no valid size: batch_limit >= 1
Subsample(inds, limit) ==
    IF Exceeds(Cardinality(inds), limit)
    THEN Choices(inds, limit.whole - 1)
    ELSE {SortedSeq(inds)}

\* the arrays collected for one Region
Region(split, cloud_ind, points, pick_point, rows) ==
    LET n == Len(rows)
    IN  [input_points |-> [j \in 1..n |-> points[rows[j]] - pick_point],
         features |-> [j \in 1..n |->
                          <<InputColor(split, cloud_ind, rows[j]),
                            (points[rows[j]] - pick_point) + pick_point>>],
         input_labels |-> [j \in 1..n |->
                          IF split = "test" THEN 0
                          ELSE LabelToIdx(InputLabel(split, cloud_ind, rows[j]))],
         input_inds |-> rows,
         cloud_ind |-> cloud_ind,
         n |-> n]

\* the tuple yielded for the accumulated lists
MkBatch(l) ==
    [points |-> Concat(l.p_list),
     features |-> Concat(l.c_list),
     labels |-> Concat(l.pl_list),
     lengths |-> [j \in 1..Len(l.p_list) |-> Len(l.p_list[j])],
     inds |-> Concat(l.pi_list),
     clouds |-> l.ci_list]

BatchFullGeq(batch_n, n, limit) == batch_n + n >= limit.whole /\ batch_n > 0
BatchFullNoAdd(batch_n, n, limit) == Exceeds(batch_n, limit) /\ batch_n > 0
\* if batch_n + n > self.batch_limit and batch_n > 0
BatchFull(batch_n, n, limit) == Exceeds(batch_n + n, limit) /\ batch_n > 0

AddRegionAlways(l, reg) ==
    [l EXCEPT !.p_list = Append(@, reg.input_points),
              !.c_list = Append(@, reg.features),
              !.pl_list = Append(@, reg.input_labels),
              !.pi_list = Append(@, reg.input_inds),
              !.ci_list = Append(@, reg.cloud_ind)]
\* if n > 0: append the Region's arrays to the lists
AddRegion(l, reg) ==
    IF reg.n > 0
    THEN [l EXCEPT !.p_list = Append(@, reg.input_points),
                   !.c_list = Append(@, reg.features),
                   !.pl_list = Append(@, reg.input_labels),
                   !.pi_list = Append(@, reg.input_inds),
                   !.ci_list = Append(@, reg.cloud_ind)]
    ELSE l

AssembleDropRegion(l, reg, limit) ==
    LET full == BatchFull(l.batch_n, reg.n, limit)
    IN  IF full
        THEN [lists |-> EmptyLists, out |-> <<MkBatch(l)>>]
        ELSE [lists |-> [AddRegion(l, reg) EXCEPT !.batch_n = @ + reg.n],
              out |-> <<>>]
AssembleKeepCount(l, reg, limit) ==
    LET full == BatchFull(l.batch_n, reg.n, limit)
        l1 == IF full THEN [EmptyLists EXCEPT !.batch_n = l.batch_n] ELSE l
        l2 == AddRegion(l1, reg)
    IN  [lists |-> [l2 EXCEPT !.batch_n = @ + reg.n],
         out |-> IF full THEN <<MkBatch(l)>> ELSE <<>>]
\* lines 352-377: yield and reset when full, add the Region, count it
Assemble(l, reg, limit) ==
    LET full == BatchFull(l.batch_n, reg.n, limit)
        l1 == IF full THEN EmptyLists ELSE l
        l2 == AddRegion(l1, reg)
    IN  [lists |-> [l2 EXCEPT !.batch_n = @ + reg.n],
         out |-> IF full THEN <<MkBatch(l)>> ELSE <<>>]

(***************************************************************************)
(* Actions.                                                                *)
(***************************************************************************)
StartPassReset(g) ==
    /\ \/ g \in MainGens /\ gen[g].pc \in {"ready", "done"}
       \/ g = "calib" /\ gen[g].pc = "ready"
    /\ ncalls < MaxCalls
    /\ ncalls' = ncalls + 1
    /\ gen' = [h \in Gens |->
                 IF h = g THEN [pc |-> "running", i |-> 0, lists |-> EmptyLists]
                 ELSE IF g \in MainGens /\ h \in MainGens THEN NewGen
                 ELSE gen[h]]
    /\ drawn' = [h \in Gens |->
                 IF h = g \/ (g \in MainGens /\ h \in MainGens) THEN <<>>
                 ELSE drawn[h]]
    /\ emitted' = [h \in Gens |->
                 IF h = g \/ (g \in MainGens /\ h \in MainGens) THEN <<>>
                 ELSE emitted[h]]
    /\ npass' = [npass EXCEPT ![g] = @ + 1]
    /\ \E p \in FreshPotentials(GenSplit(g), input_trees[GenSplit(g)]) :
         /\ potentials' = [potentials EXCEPT ![GenSplit(g)] = p]
         /\ min_potentials' = [min_potentials EXCEPT ![GenSplit(g)] = MinOfEach(p)]
    /\ UNCHANGED <<idle, neighborhood_limits, cal, config, batch_limit, input_trees, touched, ndraws>>

\* The generator function is called and a new pass begins (lines 296-303).
\* The constructor's three datasets share one re-initialisable iterator
\* (lines 117-124): initialising it for one of them drops the generator it
\* was running.  calibrate_neighbors initialises its own iterator, once
\* (lines 638-655).
StartPass(g) ==
    /\ \/ g \in MainGens /\ gen[g].pc \in {"ready", "done"}
       \/ g = "calib" /\ gen[g].pc = "ready"
    /\ ncalls < MaxCalls
    /\ ncalls' = ncalls + 1
    /\ gen' = [h \in Gens |->
                 IF h = g THEN [pc |-> "running", i |-> 0, lists |-> EmptyLists]
                 ELSE IF g \in MainGens /\ h \in MainGens THEN NewGen
                 ELSE gen[h]]
    /\ drawn' = [h \in Gens |->
                 IF h = g \/ (g \in MainGens /\ h \in MainGens) THEN <<>>
                 ELSE drawn[h]]
    /\ emitted' = [h \in Gens |->
                 IF h = g \/ (g \in MainGens /\ h \in MainGens) THEN <<>>
                 ELSE emitted[h]]
    /\ npass' = [npass EXCEPT ![g] = @ + 1]
    /\ UNCHANGED <<idle, neighborhood_limits, cal, config, batch_limit, input_trees, potentials,
                   min_potentials, touched, ndraws>>

\* one iteration of the generator loop (lines 306-377)
Draw(g) ==
    /\ gen[g].pc = "running"
    /\ gen[g].i < EpochN(GenSplit(g))
    /\ ndraws < MaxDraws
    /\ ndraws' = ndraws + 1
    /\ \E noise \in Noise :
        LET split == GenSplit(g)
            cloud_ind == ArgMin(min_potentials[split])
            point_ind == ArgMin(potentials[split][cloud_ind])
            points == input_trees[split][cloud_ind]
            center_point == points[point_ind]
            pick_point == center_point + noise
            query == RadiusQuery(points, pick_point)
            newpot == UpdatePotentials(potentials[split][cloud_ind], query,
                                       points, pick_point)
        IN  \E input_inds \in Subsample(query, batch_limit) :
              LET reg == Region(split, cloud_ind, points, pick_point, input_inds)
                  res == Assemble(gen[g].lists, reg, batch_limit)
              IN  /\ potentials' = [potentials EXCEPT ![split][cloud_ind] = newpot]
                  /\ min_potentials' =
                        [min_potentials EXCEPT
                           ![split] = RefreshMin(@, cloud_ind, newpot)]
                  /\ gen' = [gen EXCEPT ![g].lists = res.lists, ![g].i = @ + 1]
                  /\ emitted' = [emitted EXCEPT ![g] = @ \o res.out]
                  /\ drawn' = [drawn EXCEPT ![g] = Append(@,
                                 [cloud_ind |-> cloud_ind, point_ind |-> point_ind,
                                  pick_point |-> pick_point, query |-> query,
                                  input_inds |-> input_inds,
                                  mins |-> min_potentials[split],
                                  pots |-> potentials[split][cloud_ind]])]
                  /\ touched' = [touched EXCEPT ![split] = @ \cup {g}]
    /\ UNCHANGED <<idle, neighborhood_limits, cal, config, batch_limit, input_trees, npass, ncalls>>

\* the loop is over: flush the remainder and return (lines 379-385)
Finish(g) ==
    /\ gen[g].pc = "running"
    /\ gen[g].i >= EpochN(GenSplit(g))
    /\ gen' = [gen EXCEPT ![g].pc = "done"]
    /\ emitted' = [emitted EXCEPT ![g] =
                      IF gen[g].lists.batch_n > 0
                      THEN Append(@, MkBatch(gen[g].lists)) ELSE @]
    /\ UNCHANGED <<idle, neighborhood_limits, cal, config, batch_limit, input_trees, potentials,
                   min_potentials, drawn, npass, touched, ncalls, ndraws>>

\* calibrate_neighbors builds its own generator: get_batch_gen(split)
\* resets the potentials of that split (lines 618-624, 252-258).  The call
\* blocks until its pass is over, so it is not entered again before that.
CalibrateNeighbors ==
    /\ gen["calib"].pc \in {"none", "done"}
    /\ ncalls < MaxCalls
    /\ ncalls' = ncalls + 1
    /\ \E p \in FreshPotentials(CalibSplit, input_trees[CalibSplit]) :
         /\ potentials' = [potentials EXCEPT ![CalibSplit] = p]
         /\ min_potentials' = [min_potentials EXCEPT ![CalibSplit] = MinOfEach(p)]
    /\ gen' = [gen EXCEPT !["calib"] = NewGen]
    /\ drawn' = [drawn EXCEPT !["calib"] = <<>>]
    /\ emitted' = [emitted EXCEPT !["calib"] = <<>>]
    /\ npass' = [npass EXCEPT !["calib"] = 0]
    /\ UNCHANGED <<idle, neighborhood_limits, cal, config, batch_limit, input_trees, touched, ndraws>>

\* the dataset after __init__: the three generators are built (lines 98-101)
Init ==
    /\ config = MainConfig
    /\ input_trees = MainTrees
    /\ batch_limit \in BatchLimits
    /\ potentials \in [Splits -> UNION {FreshPotentials(s, MainTrees[s]) : s \in Splits}]
    /\ \A s \in Splits : potentials[s] \in FreshPotentials(s, MainTrees[s])
    /\ min_potentials = [s \in Splits |-> MinOfEach(potentials[s])]
    /\ gen = [g \in Gens |-> IF g = "calib" THEN NoGen ELSE NewGen]
    /\ drawn = [g \in Gens |-> <<>>]
    /\ emitted = [g \in Gens |-> <<>>]
    /\ npass = [g \in Gens |-> 0]
    /\ touched = [s \in Splits |-> {}]
    /\ ncalls = 0
    /\ ndraws = 0
    /\ neighborhood_limits = InitialLimits
    /\ cal = CalIdle
    /\ call = NoCall
    /\ bc = BcIdle
    /\ seg = SegIdle

Next ==
    \/ \E g \in Gens : StartPass(g)
    \/ \E g \in Gens : Draw(g)
    \/ \E g \in Gens : Finish(g)
    \/ CalibrateNeighbors

Spec == Init /\ [][Next]_vars

(***************************************************************************)
(* Batch assembly on its own: the loop body from the dense-area check on   *)
(* (lines 338-377), for any size of the radius query's result.  The        *)
(* dataset is one training cloud of six points and the query of a draw     *)
(* returns its first n points, n = 0..6; the potentials are left alone.    *)
(***************************************************************************)
AsmCloud == <<0, 1, 2, 3, 4, 5>>
AsmTrees == [training |-> <<AsmCloud>>, validation |-> <<>>, test |-> <<>>]

\* a budget of 10.0 with passes of 2 * 2 draws, and a budget of 3.5 with
\* passes of 1 * 2 draws
AsmCases ==
    {[limit |-> [whole |-> 10, frac |-> FALSE],
      config |-> [epoch_steps |-> 2, validation_size |-> 1, batch_size |-> 2]],
     [limit |-> [whole |-> 3, frac |-> TRUE],
      config |-> [epoch_steps |-> 1, validation_size |-> 1, batch_size |-> 2]]}

AsmDraw(g) ==
    /\ gen[g].pc = "running"
    /\ gen[g].i < EpochN(GenSplit(g))
    /\ LET split == GenSplit(g)
           cloud_ind == 1
           point_ind == 1
           points == input_trees[split][cloud_ind]
           pick_point == points[point_ind]
       IN  \E n \in 0..Len(points) :
             \E input_inds \in Subsample(1..n, batch_limit) :
               LET reg == Region(split, cloud_ind, points, pick_point, input_inds)
                   res == Assemble(gen[g].lists, reg, batch_limit)
               IN  /\ gen' = [gen EXCEPT ![g].lists = res.lists, ![g].i = @ + 1]
                   /\ emitted' = [emitted EXCEPT ![g] = @ \o res.out]
                   /\ drawn' = [drawn EXCEPT ![g] = Append(@,
                                  [cloud_ind |-> cloud_ind, point_ind |-> point_ind,
                                   pick_point |-> pick_point, query |-> 1..n,
                                   input_inds |-> input_inds,
                                   mins |-> min_potentials[split],
                                   pots |-> potentials[split][cloud_ind]])]
                   /\ touched' = [touched EXCEPT ![split] = @ \cup {g}]
    /\ UNCHANGED <<idle, neighborhood_limits, cal, config, batch_limit, input_trees, potentials,
                   min_potentials, npass, ncalls, ndraws>>

InitAsm ==
    /\ \E c \in AsmCases : config = c.config /\ batch_limit = c.limit
    /\ input_trees = AsmTrees
    /\ potentials = [s \in Splits |->
                       [c \in 1..Len(AsmTrees[s]) |->
                          [k \in 1..Len(AsmTrees[s][c]) |-> 0]]]
    /\ min_potentials = [s \in Splits |-> MinOfEach(potentials[s])]
    /\ gen = [g \in Gens |-> IF g = "calib" THEN NoGen ELSE NewGen]
    /\ drawn = [g \in Gens |-> <<>>]
    /\ emitted = [g \in Gens |-> <<>>]
    /\ npass = [g \in Gens |-> 0]
    /\ touched = [s \in Splits |-> {}]
    /\ ncalls = 0
    /\ ndraws = 0
    /\ neighborhood_limits = InitialLimits
    /\ cal = CalIdle
    /\ call = NoCall
    /\ bc = BcIdle
    /\ seg = SegIdle

NextAsm ==
    \/ StartPass("train")
    \/ AsmDraw("train")
    \/ Finish("train")

SpecAsm == InitAsm /\ [][NextAsm]_vars

(***************************************************************************)
(* calibrate_neighbors: the histogram loop and the choice of the limits    *)
(* (lines 660-701).  A histogram is a sequence of hist_n buckets, bucket   *)
(* b + 1 counting the points with b neighbors; what a batch adds to the    *)
(* histogram of a layer is one of BatchHists.                              *)
(***************************************************************************)
BatchHists ==
    {[b \in 1..hist_n |-> IF b >= from THEN HistInc ELSE 0] : from \in 1..(hist_n + 1)}
        \cup {[b \in 1..hist_n |-> IF b = 1 THEN HistInc ELSE 0],
              [b \in 1..hist_n |-> IF b = 1 THEN 4 * HistInc
                                   ELSE IF b = 2 THEN HistInc ELSE 0]}

\* np.cumsum(h)[b - 1]
CumSum(h, b) == SumSeq(SubSeq(h, 1, b))

PercentileLeq(h) ==
    Cardinality({b \in 1..hist_n :
                    CumSum(h, b) * KeepDen <= KeepNum * CumSum(h, hist_n)})
\* np.sum(cumsum < keep_ratio * cumsum[hist_n - 1], axis=0), for one layer
Percentile(h) ==
    Cardinality({b \in 1..hist_n :
                    CumSum(h, b) * KeepDen < KeepNum * CumSum(h, hist_n)})

\* epoch < 1 and np.min(np.sum(neighb_hists, axis=1)) < samples_threshold
CalLoopCond ==
    /\ cal.epoch < 1
    /\ \E l \in 1..num_layers : SumSeq(cal.neighb_hists[l]) < samples_threshold

\* one batch: neighb_hists += np.vstack(hists); training_step += 1
CalibStep ==
    /\ cal.pc = "loop"
    /\ CalLoopCond
    /\ cal.training_step < MaxCalibSteps
    /\ \E hists \in [1..num_layers -> BatchHists] :
         cal' = [cal EXCEPT
                   !.neighb_hists = [l \in 1..num_layers |->
                                       [b \in 1..hist_n |-> @[l][b] + hists[l][b]]],
                   !.training_step = @ + 1]
    /\ UNCHANGED <<idle, neighborhood_limits, config, batch_limit, input_trees,
                   potentials, min_potentials, gen, drawn, emitted, npass,
                   touched, ncalls, ndraws>>

CalibEndOfDataIgnored ==
    /\ cal.pc = "loop"
    /\ CalLoopCond
    /\ UNCHANGED vars
\* except tf.errors.OutOfRangeError: epoch += 1
CalibEndOfData ==
    /\ cal.pc = "loop"
    /\ CalLoopCond
    /\ cal' = [cal EXCEPT !.epoch = @ + 1]
    /\ UNCHANGED <<idle, neighborhood_limits, config, batch_limit, input_trees,
                   potentials, min_potentials, gen, drawn, emitted, npass,
                   touched, ncalls, ndraws>>

\* any other exception of sess.run or of the histogram update: no except
\* clause matches, the exception leaves the loop and calibrate_neighbors
CalibRaise ==
    /\ cal.pc = "loop"
    /\ CalLoopCond
    /\ cal' = [cal EXCEPT !.pc = "raised"]
    /\ UNCHANGED <<idle, neighborhood_limits, config, batch_limit, input_trees,
                   potentials, min_potentials, gen, drawn, emitted, npass,
                   touched, ncalls, ndraws>>

\* after the loop: self.neighborhood_limits = percentiles
CalibFinish ==
    /\ cal.pc = "loop"
    /\ ~CalLoopCond
    /\ neighborhood_limits' = [l \in 1..num_layers |-> Percentile(cal.neighb_hists[l])]
    /\ cal' = [cal EXCEPT !.pc = "done"]
    /\ UNCHANGED <<idle, config, batch_limit, input_trees,
                   potentials, min_potentials, gen, drawn, emitted, npass,
                   touched, ncalls, ndraws>>

\* the dataset after __init__, calibrate_neighbors entering its loop with
\* neighb_hists = np.zeros((num_layers, hist_n))
InitCalib ==
    /\ config = MainConfig
    /\ input_trees = MainTrees
    /\ batch_limit = [whole |-> 1, frac |-> FALSE]
    /\ potentials = [s \in Splits |->
                       [c \in 1..Len(MainTrees[s]) |->
                          [k \in 1..Len(MainTrees[s][c]) |-> 0]]]
    /\ min_potentials = [s \in Splits |-> MinOfEach(potentials[s])]
    /\ gen = [g \in Gens |-> NewGen]
    /\ drawn = [g \in Gens |-> <<>>]
    /\ emitted = [g \in Gens |-> <<>>]
    /\ npass = [g \in Gens |-> 0]
    /\ touched = [s \in Splits |-> {}]
    /\ ncalls = 0
    /\ ndraws = 0
    /\ neighborhood_limits = InitialLimits
    /\ cal = [pc |-> "loop",
              neighb_hists |-> [l \in 1..num_layers |-> [b \in 1..hist_n |-> 0]],
              epoch |-> 0, training_step |-> 0]
    /\ call = NoCall
    /\ bc = BcIdle
    /\ seg = SegIdle

NextCalib ==
    \/ CalibStep
    \/ CalibEndOfData
    \/ CalibRaise
    \/ CalibFinish

SpecCalib == InitCalib /\ [][NextCalib]_vars

\* The generator's pass is finite and sess.run returns: a batch is
\* delivered or the end of the data is signalled, and the statements after
\* the loop are executed.  Nothing forces a failure to happen.
SpecCalibLive ==
    SpecCalib /\ WF_vars(CalibStep \/ CalibEndOfData \/ CalibFinish)

(***************************************************************************)
(* calibrate_batches (lines 573-612).  The floats lim and estim_b are      *)
(* rationals, kept in lowest terms.  The dataset is one training cloud     *)
(* with a group of three close points and two isolated points.  The loop   *)
(* of the controller runs ctl_iters times; the outcomes of its random      *)
(* batch are explored for the first MaxCtrlSteps iterations, and all       *)
(* iterations are run when the random batch is empty (max_b = 0), where    *)
(* an iteration has a single outcome.                                      *)
(***************************************************************************)
ctl_iters == 10000
filter_len == 100
gain == 10

BcCloud == <<0, 1, 2, 10, 20>>
BcTrees == [training |-> <<BcCloud>>, validation |-> <<>>, test |-> <<>>]

RECURSIVE GCD(_, _)
GCD(a, b) == IF b = 0 THEN a ELSE GCD(b, a % b)

Abs(x) == IF x < 0 THEN -x ELSE x

\* num / den in lowest terms, den > 0
Norm(num, den) ==
    LET g == GCD(Abs(num), den)
    IN  Rat(num \div g, den \div g)

RatOfInt(n) == Rat(n, 1)
RatAdd(a, b) == Norm(a.num * b.den + b.num * a.den, a.den * b.den)
RatSub(a, b) == Norm(a.num * b.den - b.num * a.den, a.den * b.den)
RatMulInt(a, n) == Norm(a.num * n, a.den)
RatDivInt(a, n) == Norm(a.num, a.den * n)
\* n < a and n > a, for an integer n
IntLessRat(n, a) == n * a.den < a.num
IntGreaterRat(n, a) == n * a.den > a.num

RECURSIVE InsertSorted(_, _)
InsertSorted(x, s) ==
    IF s = <<>> THEN <<x>>
    ELSE IF x <= Head(s) THEN <<x>> \o s
    ELSE <<Head(s)>> \o InsertSorted(x, Tail(s))

RECURSIVE NpSort(_)
\* np.sort
NpSort(s) == IF s = <<>> THEN <<>> ELSE InsertSorted(Head(s), NpSort(Tail(s)))

\* N = (10000 // len(self.input_trees[split])) + 1
SampleN(trees) == (SampleTotal \div Len(trees)) + 1

\* lines 595-601: the index at which the running sum of the sorted sizes
\* first exceeds lim, and 0 when the loop ends without a break
MaxB(sizes, lim) ==
    LET over == {i \in 0..(Len(sizes) - 1) :
                    SumSeq(SubSeq(sizes, 1, i + 1)) > lim}
    IN  IF over = {} THEN 0 ELSE CHOOSE i \in over : \A j \in over : i <= j

\* b = np.sum(np.cumsum(rand_shapes) < lim)
Fitting(rand_shapes, lim) ==
    Cardinality({j \in 1..Len(rand_shapes) :
                    IntLessRat(SumSeq(SubSeq(rand_shapes, 1, j)), lim)})

\* lines 583-590 for the next tree: the sizes of the neighborhoods of N
\* sampled points.  rand_points is a copy of the sampled rows, the noise is
\* added to this copy, and the query is made at points[rand_inds].
BcSample ==
    /\ bc.pc = "sample"
    /\ bc.tree <= Len(input_trees[CalibSplit])
    /\ LET points == input_trees[CalibSplit][bc.tree]
           N == SampleN(input_trees[CalibSplit])
       IN  IF N > Len(points)
           THEN bc' = [bc EXCEPT !.pc = "raised"]
           ELSE \E rand_inds \in Choices(1..Len(points), N) :
                  \E noise \in [1..N -> Noise] :
                    LET rand_points == [j \in 1..N |-> points[rand_inds[j]] + noise[j]]
                        neighbors == [j \in 1..N |->
                                         RadiusQuery(points, points[rand_inds[j]])]
                    IN  bc' = [bc EXCEPT
                                 !.samples = [j \in 1..N |->
                                                [ind |-> rand_inds[j],
                                                 rand_point |-> rand_points[j],
                                                 size |-> Cardinality(neighbors[j])]],
                                 !.sizes = @ \o [j \in 1..N |-> Cardinality(neighbors[j])],
                                 !.tree = @ + 1]
    /\ UNCHANGED <<call, seg, config, batch_limit, input_trees, potentials,
                   min_potentials, gen, drawn, emitted, npass, touched, ncalls,
                   ndraws, neighborhood_limits, cal>>

\* lines 591-603: sort, the higher bound of lim, max_b, estim_b = 0
BcSortAndBound ==
    /\ bc.pc = "sample"
    /\ bc.tree > Len(input_trees[CalibSplit])
    /\ LET sizes == NpSort(bc.sizes)
           lim == sizes[Len(sizes)] * config.batch_size
       IN  bc' = [bc EXCEPT !.pc = "control", !.samples = <<>>, !.sizes = sizes,
                            !.lim = RatOfInt(lim), !.max_b = MaxB(sizes, lim),
                            !.estim_b = RatOfInt(0), !.i = 0]
    /\ UNCHANGED <<call, seg, config, batch_limit, input_trees, potentials,
                   min_potentials, gen, drawn, emitted, npass, touched, ncalls,
                   ndraws, neighborhood_limits, cal>>

\* one iteration of the controller (lines 604-611)
BcControl ==
    /\ bc.pc = "control"
    /\ bc.i < ctl_iters
    /\ bc.max_b > 0 => bc.i < MaxCtrlSteps
    /\ \E pick \in Choices(1..Len(bc.sizes), bc.max_b) :
         LET rand_shapes == [j \in 1..bc.max_b |-> bc.sizes[pick[j]]]
             b == Fitting(rand_shapes, bc.lim)
             k == IF bc.i + 1 < filter_len THEN bc.i + 1 ELSE filter_len
             estim_b == RatAdd(bc.estim_b,
                               RatDivInt(RatSub(RatOfInt(b), bc.estim_b), k))
             lim == RatAdd(bc.lim,
                           RatMulInt(RatSub(RatOfInt(config.batch_size), estim_b),
                                     gain))
         IN  bc' = [bc EXCEPT !.estim_b = estim_b, !.lim = lim, !.i = @ + 1]
    /\ UNCHANGED <<call, seg, config, batch_limit, input_trees, potentials,
                   min_potentials, gen, drawn, emitted, npass, touched, ncalls,
                   ndraws, neighborhood_limits, cal>>

\* return lim; self.batch_limit = self.calibrate_batches() (line 92)
BcReturn ==
    /\ bc.pc = "control"
    /\ bc.i >= ctl_iters
    /\ bc' = [bc EXCEPT !.pc = "done"]
    /\ batch_limit' = [whole |-> bc.lim.num \div bc.lim.den,
                       frac |-> bc.lim.num % bc.lim.den # 0]
    /\ UNCHANGED <<call, seg, config, input_trees, potentials,
                   min_potentials, gen, drawn, emitted, npass, touched, ncalls,
                   ndraws, neighborhood_limits, cal>>

\* __init__ at line 92: the clouds are loaded, no generator is built yet
InitBatchCal ==
    /\ \E b \in 1..MaxBatchSize :
         config = [epoch_steps |-> 2, validation_size |-> 1, batch_size |-> b]
    /\ input_trees = BcTrees
    /\ batch_limit = [whole |-> 0, frac |-> FALSE]
    /\ potentials = [s \in Splits |-> <<>>]
    /\ min_potentials = [s \in Splits |-> <<>>]
    /\ gen = [g \in Gens |-> NoGen]
    /\ drawn = [g \in Gens |-> <<>>]
    /\ emitted = [g \in Gens |-> <<>>]
    /\ npass = [g \in Gens |-> 0]
    /\ touched = [s \in Splits |-> {}]
    /\ ncalls = 0
    /\ ndraws = 0
    /\ neighborhood_limits = InitialLimits
    /\ cal = CalIdle
    /\ call = NoCall
    /\ bc = [BcIdle EXCEPT !.pc = "sample", !.tree = 1]
    /\ seg = SegIdle

NextBatchCal ==
    \/ BcSample
    \/ BcSortAndBound
    \/ BcControl
    \/ BcReturn

SpecBatchCal == InitBatchCal /\ [][NextBatchCal]_vars

(***************************************************************************)
(* get_batch_gen called on the constructed dataset, with any split name    *)
(* (lines 233-258).  The generator it returns for a split takes the place  *)
(* of the one the caller held for that split.                              *)
(***************************************************************************)
SplitArgs == Splits \cup {"train", "all"}

SlotOf(split) ==
    CASE split = "training"   -> "train"
      [] split = "validation" -> "val"
      [] split = "test"       -> "test"

GetBatchGenLenient(split) ==
    LET sp == IF split \in {"training", "validation"} THEN split ELSE "test"
    IN  /\ ncalls < MaxCalls
        /\ ncalls' = ncalls + 1
        /\ call' = [n |-> call.n + 1, arg |-> split, raised |-> "none"]
        /\ \E p \in FreshPotentials(sp, input_trees[sp]) :
             /\ potentials' = [potentials EXCEPT ![sp] = p]
             /\ min_potentials' = [min_potentials EXCEPT ![sp] = MinOfEach(p)]
        /\ gen' = [gen EXCEPT ![SlotOf(sp)] = NewGen]
        /\ drawn' = [drawn EXCEPT ![SlotOf(sp)] = <<>>]
        /\ emitted' = [emitted EXCEPT ![SlotOf(sp)] = <<>>]
        /\ npass' = [npass EXCEPT ![SlotOf(sp)] = 0]
        /\ UNCHANGED <<bc, seg, neighborhood_limits, cal, config, batch_limit,
                       input_trees, touched, ndraws>>
\* the split is checked first (lines 234-245): an unknown name raises
\* ValueError before anything is assigned; otherwise the potentials of the
\* split are reset (lines 252-258) and a generator is returned
GetBatchGen(split) ==
    /\ ncalls < MaxCalls
    /\ ncalls' = ncalls + 1
    /\ IF split \in {"training", "validation", "test"}
       THEN /\ call' = [n |-> call.n + 1, arg |-> split, raised |-> "none"]
            /\ \E p \in FreshPotentials(split, input_trees[split]) :
                 /\ potentials' = [potentials EXCEPT ![split] = p]
                 /\ min_potentials' = [min_potentials EXCEPT ![split] = MinOfEach(p)]
            /\ gen' = [gen EXCEPT ![SlotOf(split)] = NewGen]
            /\ drawn' = [drawn EXCEPT ![SlotOf(split)] = <<>>]
            /\ emitted' = [emitted EXCEPT ![SlotOf(split)] = <<>>]
            /\ npass' = [npass EXCEPT ![SlotOf(split)] = 0]
       ELSE /\ call' = [n |-> call.n + 1, arg |-> split, raised |-> "ValueError"]
            /\ UNCHANGED <<potentials, min_potentials, gen, drawn, emitted, npass>>
    /\ UNCHANGED <<bc, seg, neighborhood_limits, cal, config, batch_limit,
                   input_trees, touched, ndraws>>

NextBuild ==
    \/ \E split \in SplitArgs : GetBatchGen(split)
    \/ \E g \in MainGens : StartPass(g)
    \/ \E g \in MainGens : Draw(g)
    \/ \E g \in MainGens : Finish(g)

SpecBuild == Init /\ [][NextBuild]_vars

(***************************************************************************)
(* tf_segmentation_inputs (lines 706-783).  A stacked point set is known   *)
(* by the lengths of its stacks.  tf_batch_subsampling and                 *)
(* tf_batch_neighbors are operations of the wrappers: a grid subsampling   *)
(* keeps between one and all points of every stack, and a neighbor matrix  *)
(* is known by its query set, its support set, its radius and the layer    *)
(* whose limit it is cropped to.  r and dl are counted in units of their   *)
(* first values.  The Python list of index k is the sequence position      *)
(* k + 1.                                                                  *)
(***************************************************************************)
None == [kind |-> "None", q |-> <<>>, s |-> <<>>, r |-> 0, layer |-> 0]
\* tf.zeros((0, 1), dtype=tf.int32)
Zeros == [kind |-> "zeros", q |-> <<>>, s |-> <<>>, r |-> 0, layer |-> 0]
PointSet(lengths) ==
    [kind |-> "points", q |-> lengths, s |-> <<>>, r |-> 0, layer |-> 0]
\* big_neighborhood_filter(tf_batch_neighbors(queries, supports, ..., r), layer)
Neighbors(queries, supports, r, layer) ==
    [kind |-> "neighbors", q |-> queries, s |-> supports, r |-> r, layer |-> layer]

\* the outcomes of tf_batch_subsampling(stacked_points, stacks_lengths, ...)
Subsamplings(lengths) ==
    {p \in [1..Len(lengths) -> 1..MaxStack] :
        \A j \in 1..Len(lengths) : p[j] <= lengths[j]}

\* one level with a pooling: the four relations, the assignments to the
\* lists at dt and dt + 1, and the next point set (lines 731-747, 750-765).
\* The assignment to input_upsamples[dt + 1] is out of range when the lists
\* have no index dt + 1.
SegLevel(dt, first) ==
    \E pool_lengths \in Subsamplings(seg.stacks_lengths) :
      LET num_layers_ == Len(seg.input_points)
          neighbors_inds == Neighbors(seg.stacks_lengths, seg.stacks_lengths, seg.r, dt)
          pool_inds == Neighbors(pool_lengths, seg.stacks_lengths, seg.r, dt)
          up_inds == Neighbors(seg.stacks_lengths, pool_lengths, 2 * seg.r, dt)
          ups == IF first THEN [seg.input_upsamples EXCEPT ![1] = Zeros]
                 ELSE seg.input_upsamples
          s1 == [seg EXCEPT
                   !.subsamplings = @ + 1,
                   !.input_points = [@ EXCEPT ![dt + 1] = PointSet(seg.stacks_lengths)],
                   !.input_neighbors = [@ EXCEPT ![dt + 1] = neighbors_inds],
                   !.input_pools = [@ EXCEPT ![dt + 1] = pool_inds],
                   !.input_upsamples = ups]
      IN  IF dt + 1 >= num_layers_
          THEN seg' = [s1 EXCEPT !.pc = "IndexError"]
          ELSE seg' = [s1 EXCEPT
                         !.input_upsamples = [@ EXCEPT ![dt + 2] = up_inds],
                         !.input_batches_len = [@ EXCEPT ![dt + 1] = seg.stacks_lengths],
                         !.stacks_lengths = pool_lengths,
                         !.r = 2 * @,
                         !.dl = 2 * @,
                         !.dt = dt + 1,
                         !.pc = "loop"]

\* lines 716-747: the lists of num_layers entries and the first level
SegFirst ==
    /\ seg.pc = "first"
    /\ SegLevel(0, TRUE)
    /\ UNCHANGED <<call, bc, config, batch_limit, input_trees, potentials,
                   min_potentials, gen, drawn, emitted, npass, touched, ncalls,
                   ndraws, neighborhood_limits, cal>>

\* one iteration of for dt in range(1, downsample_times) (lines 749-765)
SegLoop ==
    /\ seg.pc = "loop"
    /\ seg.dt < seg.downsample_times
    /\ SegLevel(seg.dt, FALSE)
    /\ UNCHANGED <<call, bc, config, batch_limit, input_trees, potentials,
                   min_potentials, gen, drawn, emitted, npass, touched, ncalls,
                   ndraws, neighborhood_limits, cal>>

\* the last level and the returned list (lines 767-783)
SegLast ==
    /\ seg.pc = "loop"
    /\ seg.dt >= seg.downsample_times
    /\ LET last == seg.downsample_times + 1
           neighbors_inds == Neighbors(seg.stacks_lengths, seg.stacks_lengths,
                                       seg.r, seg.downsample_times)
       IN  seg' = [seg EXCEPT
                     !.input_points = [@ EXCEPT ![last] = PointSet(seg.stacks_lengths)],
                     !.input_neighbors = [@ EXCEPT ![last] = neighbors_inds],
                     !.input_pools = [@ EXCEPT ![last] = Zeros],
                     !.input_batches_len = [@ EXCEPT ![last] = seg.stacks_lengths],
                     !.pc = "done"]
    /\ UNCHANGED <<call, bc, config, batch_limit, input_trees, potentials,
                   min_potentials, gen, drawn, emitted, npass, touched, ncalls,
                   ndraws, neighborhood_limits, cal>>

\* the call tf_segmentation_inputs(downsample_times, ...) on a batch, after
\* lines 720-729: r, dl and the lists of num_layers = downsample_times + 1
\* entries None
InitSeg ==
    /\ config = MainConfig
    /\ input_trees = MainTrees
    /\ batch_limit = [whole |-> 1, frac |-> FALSE]
    /\ potentials = [s \in Splits |->
                       [c \in 1..Len(MainTrees[s]) |->
                          [k \in 1..Len(MainTrees[s][c]) |-> 0]]]
    /\ min_potentials = [s \in Splits |-> MinOfEach(potentials[s])]
    /\ gen = [g \in Gens |-> IF g = "calib" THEN NoGen ELSE NewGen]
    /\ drawn = [g \in Gens |-> <<>>]
    /\ emitted = [g \in Gens |-> <<>>]
    /\ npass = [g \in Gens |-> 0]
    /\ touched = [s \in Splits |-> {}]
    /\ ncalls = 0
    /\ ndraws = 0
    /\ neighborhood_limits = InitialLimits
    /\ cal = CalIdle
    /\ call = NoCall
    /\ bc = BcIdle
    /\ \E downsample_times \in 0..MaxDownsample :
         \E n \in 1..MaxStack : \E stacks_lengths \in [1..n -> 1..MaxStack] :
           LET nones == [k \in 1..(downsample_times + 1) |-> None]
           IN  seg = [pc |-> "first", downsample_times |-> downsample_times,
                      dt |-> 0, subsamplings |-> 0, r |-> 1, dl |-> 1,
                      stacks_lengths |-> stacks_lengths,
                      input_points |-> nones, input_neighbors |-> nones,
                      input_pools |-> nones, input_upsamples |-> nones,
                      input_batches_len |-> [k \in 1..(downsample_times + 1) |-> <<>>]]

NextSeg ==
    \/ SegFirst
    \/ SegLoop
    \/ SegLast

SpecSeg == InitSeg /\ [][NextSeg]_vars

(***************************************************************************)
(* Properties.                                                             *)
(***************************************************************************)
AllEmitted == UNION {{emitted[g][j] : j \in 1..Len(emitted[g])} : g \in Gens}
AllDrawn == UNION {{drawn[g][j] : j \in 1..Len(drawn[g])} : g \in Gens}

\* C1: every emitted Batch (the final flushed one included) has at most
\* batch_limit points, unless it is a single Region that alone exceeds it.
\* (For an integer count, count <= batch_limit is count <= its whole part.)
C1_BatchWithinBudget ==
    \A b \in AllEmitted :
        \/ Len(b.points) <= batch_limit.whole
        \/ Len(b.lengths) = 1 /\ b.lengths[1] > batch_limit.whole

\* a finished pass that yielded a full Batch inside the loop and flushed
\* another one at its end
C1_Witness ==
    \E g \in Gens :
        /\ gen[g].pc = "done"
        /\ Len(emitted[g]) = 2
        /\ Len(emitted[g][1].points) = batch_limit.whole
        /\ Len(emitted[g][1].lengths) + Len(emitted[g][2].lengths) >= 2

\* C2: every emitted Batch has R >= 1 Regions, every per-region length is
\* >= 1, the lengths sum to the row count of the stacked points, features,
\* labels and point indices, and there are R cloud ids.
C2_BatchShape ==
    \A b \in AllEmitted :
        /\ Len(b.lengths) >= 1
        /\ \A j \in 1..Len(b.lengths) : b.lengths[j] >= 1
        /\ SumSeq(b.lengths) = Len(b.points)
        /\ Len(b.features) = Len(b.points)
        /\ Len(b.labels) = Len(b.points)
        /\ Len(b.inds) = Len(b.points)
        /\ Len(b.clouds) = Len(b.lengths)

\* a Batch was yielded in a pass in which an empty Region was drawn too
C2_Witness ==
    \E g \in Gens :
        /\ emitted[g] # <<>>
        /\ \E j \in 1..Len(drawn[g]) : drawn[g][j].input_inds = <<>>
        /\ \E j \in 1..Len(drawn[g]) : Len(drawn[g][j].input_inds) >= 1

\* the potentials of a split are as get_batch_gen leaves them: all values
\* below 1e-3, and the cached minima are those of the arrays
Fresh(split) ==
    /\ \A c \in 1..Len(potentials[split]) :
         \A k \in 1..Len(potentials[split][c]) :
            potentials[split][c][k] >= 0 /\ potentials[split][c][k] < FreshBound
    /\ min_potentials[split] = MinOfEach(potentials[split])

\* C3 as stated: whenever a generator begins a pass, the potentials of its
\* split are freshly initialised.  (Stated for a generator that is the only
\* one to have drawn on its split, so that what it finds is its own previous
\* pass.)
C3_FreshAtEveryPass ==
    \A g \in Gens :
        (gen[g].pc = "running" /\ gen[g].i = 0 /\ touched[GenSplit(g)] \subseteq {g})
            => Fresh(GenSplit(g))

\* C3 amended: the potentials of a split are reset when get_batch_gen builds
\* a generator for it (in the constructor, and in calibrate_neighbors);
\* beginning a pass leaves every potential and cached minimum as it is.
C3_ResetAtBuildOnly ==
    /\ \A s \in Splits : Fresh(s)
    /\ [][/\ (\E g \in Gens : npass'[g] = npass[g] + 1)
               => (potentials' = potentials /\ min_potentials' = min_potentials)
          /\ (gen["calib"].pc # "ready" /\ gen'["calib"].pc = "ready")
               => Fresh(CalibSplit)']_vars

\* a generator begins its second pass and finds what its first pass left
C3_Witness ==
    \E g \in Gens :
        /\ npass[g] >= 2
        /\ gen[g].pc = "running" /\ gen[g].i = 0
        /\ touched[GenSplit(g)] = {g}
        /\ ~Fresh(GenSplit(g))

\* C4 as stated: no two generator instances draw on the potentials of the
\* same split.
C4_DisjointFields ==
    \A s \in Splits : Cardinality(touched[s]) <= 1

\* C5: the Cloud of a draw is the lowest-index Cloud of smallest cached
\* minimum, its center the lowest-index point of smallest potential there.
C5_ArgMinSelection ==
    \A d \in AllDrawn :
        /\ \A c \in 1..Len(d.mins) : d.mins[d.cloud_ind] <= d.mins[c]
        /\ \A c \in 1..(d.cloud_ind - 1) : d.mins[c] > d.mins[d.cloud_ind]
        /\ \A k \in 1..Len(d.pots) : d.pots[d.point_ind] <= d.pots[k]
        /\ \A k \in 1..(d.point_ind - 1) : d.pots[k] > d.pots[d.point_ind]

\* a draw that had to break a tie between Clouds and between points, and one
\* that selected the second Cloud
C5_Witness ==
    /\ \E d \in AllDrawn :
         /\ Len(d.mins) >= 2 /\ d.mins[1] = d.mins[2] /\ d.cloud_ind = 1
         /\ \E k \in 1..Len(d.pots) : k # d.point_ind /\ d.pots[k] = d.pots[d.point_ind]
    /\ \E d \in AllDrawn : d.cloud_ind = 2

\* C6: a draw never lowers a potential: what it adds to a point of the
\* query is the Tukey weight (1 - d2/r2)^2 of its squared distance d2 <= r2
\* to the picked center, a value of 0..1, and it adds nothing elsewhere.
C6_PotentialsGrow ==
    [][\A g \in Gens :
         Len(drawn'[g]) = Len(drawn[g]) + 1 =>
           LET d == drawn'[g][Len(drawn'[g])]
               s == GenSplit(g)
           IN  \A sp \in Splits : \A c \in 1..Len(potentials[sp]) :
                 \A k \in 1..Len(potentials[sp][c]) :
                   LET w == potentials'[sp][c][k] - potentials[sp][c][k]
                       d2 == (input_trees[sp][c][k] - d.pick_point)
                                * (input_trees[sp][c][k] - d.pick_point)
                   IN  /\ w >= 0 /\ w <= R2 * R2 * PotUnit
                       /\ IF sp = s /\ c = d.cloud_ind /\ k \in d.query
                          THEN d2 <= R2 /\ w = (R2 - d2) * (R2 - d2) * PotUnit
                          ELSE w = 0]_vars

\* a point that two draws have added a positive weight to
C6_Witness ==
    \E s \in Splits : \E c \in 1..Len(potentials[s]) :
        \E k \in 1..Len(potentials[s][c]) :
            /\ potentials[s][c][k] >= 2 * (R2 - 1) * (R2 - 1) * PotUnit
            /\ \E g \in Gens : Len(drawn[g]) >= 2

Sizes(ds) == [j \in 1..Len(ds) |-> Len(ds[j].input_inds)]

\* C7: a query result of more than batch_limit indices is replaced by
\* int(batch_limit) - 1 distinct indices taken from it, a smaller one is
\* kept as it is; so no Region given to the assembly exceeds batch_limit.
C7_Subsample ==
    \A d \in AllDrawn :
        LET n == Cardinality(d.query)
            k == Len(d.input_inds)
        IN  /\ n > batch_limit.whole =>
                 /\ k = batch_limit.whole - 1
                 /\ \A a, b \in 1..k : a # b => d.input_inds[a] # d.input_inds[b]
            /\ n <= batch_limit.whole =>
                 /\ k = n
                 /\ \A a, b \in 1..k : a < b => d.input_inds[a] < d.input_inds[b]
            /\ {d.input_inds[a] : a \in 1..k} \subseteq d.query
            /\ k <= batch_limit.whole

\* a query result of six indices cut down to two, in an order that is not
\* the query's, and one of three indices kept
C7_Witness ==
    /\ batch_limit.whole = 3
    /\ \E d \in AllDrawn : /\ Cardinality(d.query) = 6
                           /\ Len(d.input_inds) = 2
                           /\ d.input_inds[1] > d.input_inds[2]
    /\ \E d \in AllDrawn : Cardinality(d.query) = 3 /\ Len(d.input_inds) = 3

\* C9: with a budget of 10 and Regions of 4, 5, 3 and 6 points drawn in
\* this order, the pass yields the Batch of the Regions of 4 and 5 points,
\* then the Batch of the Regions of 3 and 6 points, and nothing else.
C9_Example ==
    \A g \in Gens :
        (/\ gen[g].pc = "done"
         /\ batch_limit = [whole |-> 10, frac |-> FALSE]
         /\ Sizes(drawn[g]) = <<4, 5, 3, 6>>)
        => /\ Len(emitted[g]) = 2
           /\ emitted[g][1].lengths = <<4, 5>> /\ Len(emitted[g][1].points) = 9
           /\ emitted[g][2].lengths = <<3, 6>> /\ Len(emitted[g][2].points) = 9

\* the pass of the example, finished
C9_Witness ==
    \E g \in Gens :
        /\ gen[g].pc = "done"
        /\ batch_limit = [whole |-> 10, frac |-> FALSE]
        /\ Sizes(drawn[g]) = <<4, 5, 3, 6>>
        /\ Len(emitted[g]) = 2

\* C8: a pass that is over has made epoch_steps * batch_size draws for the
\* training split and validation_size * batch_size draws for the others;
\* it ends with a flush of the remainder exactly when there is one, and
\* yields nothing afterwards.
C8_PassLength ==
    /\ [](\A g \in Gens :
            gen[g].pc = "done" =>
              /\ gen[g].i = (IF GenSplit(g) = "training" THEN config.epoch_steps
                             ELSE config.validation_size) * config.batch_size
              /\ Len(drawn[g]) = gen[g].i
              /\ gen[g].lists.p_list # <<>> =>
                    /\ emitted[g] # <<>>
                    /\ emitted[g][Len(emitted[g])] = MkBatch(gen[g].lists)
              /\ gen[g].lists.p_list = <<>> => emitted[g] = <<>>)
    /\ [][\A g \in Gens :
            /\ (gen[g].pc = "done" /\ gen'[g].pc = "done") => emitted'[g] = emitted[g]
            /\ (gen[g].pc = "running" /\ gen'[g].pc = "done") =>
                  Len(emitted'[g]) = Len(emitted[g])
                      + (IF gen[g].lists.p_list # <<>> THEN 1 ELSE 0)]_vars

\* finished passes of the training split and of another split, one without
\* any Batch and one with a final flush
C8_Witness ==
    /\ \E g \in Gens : /\ gen[g].pc = "done" /\ GenSplit(g) = "training"
                       /\ gen[g].i = 2 /\ emitted[g] = <<>>
    /\ \E g \in Gens : /\ gen[g].pc = "done" /\ GenSplit(g) # "training"
                       /\ gen[g].i = 1 /\ Len(emitted[g]) = 1

\* C10: the limit chosen for a layer is the smallest bucket index (counting
\* from 0) whose cumulative count is at least keep_ratio times the layer's
\* total count; counts 10, 20, 30, 40 with keep_ratio 0.8 give index 3, the
\* fourth bucket.
C10_SmallestBucket ==
    cal.pc = "done" =>
        \A l \in 1..num_layers :
            LET h == cal.neighb_hists[l]
                total == SumSeq(h)
                p == neighborhood_limits[l]
                Cum(b) == SumSeq([j \in 1..(b + 1) |-> h[j]])
            IN  /\ p \in 0..(hist_n - 1)
                /\ KeepDen * Cum(p) >= KeepNum * total
                /\ \A q \in 0..(p - 1) : KeepDen * Cum(q) < KeepNum * total
                /\ h = <<10, 20, 30, 40>> => p = 3

\* the limits of the histogram 10, 20, 30, 40 and of one whose first
\* bucket holds exactly keep_ratio of the total have been chosen
C10_Witness ==
    /\ cal.pc = "done"
    /\ cal.neighb_hists[1] = <<10, 20, 30, 40>>
    /\ cal.neighb_hists[2] = <<40, 10, 0, 0>>
    /\ neighborhood_limits = <<3, 0>>

\* C11 as stated: when calibrate_batches returns, the smoothed estimate
\* estim_b is within 1 of batch_size.
C11_EstimateNearTarget ==
    bc.pc = "done" =>
        /\ ~IntGreaterRat(config.batch_size - 1, bc.estim_b)
        /\ ~IntLessRat(config.batch_size + 1, bc.estim_b)

\* C12: a get_batch_gen call with a split name other than "training",
\* "validation" and "test" raises ValueError and changes no potential, no
\* cached minimum and no generator.
C12_UnknownSplitRejected ==
    [][(call'.n = call.n + 1 /\ call'.arg \notin {"training", "validation", "test"})
          => /\ call'.raised = "ValueError"
             /\ potentials' = potentials
             /\ min_potentials' = min_potentials
             /\ gen' = gen
             /\ emitted' = emitted]_vars

\* an unknown split name was rejected while a generator was in the middle
\* of a pass and the potentials of its split were no longer fresh
C12_Witness ==
    /\ call.raised = "ValueError"
    /\ call.arg \notin Splits
    /\ \E g \in MainGens : /\ gen[g].pc = "running"
                           /\ gen[g].i >= 1
                           /\ ~Fresh(GenSplit(g))

\* C13: a draw whose Region has no point yields no Batch and leaves the
\* lists, the point count batch_n and the Batches yielded so far as they
\* were.
C13_EmptyRegionIgnored ==
    [][\A g \in Gens :
         (/\ Len(drawn'[g]) = Len(drawn[g]) + 1
          /\ drawn'[g][Len(drawn'[g])].input_inds = <<>>)
         => /\ gen'[g].lists = gen[g].lists
            /\ emitted'[g] = emitted[g]]_vars

\* an empty Region was drawn when the lists held exactly batch_limit points
C13_Witness ==
    \E g \in Gens :
        /\ Len(drawn[g]) >= 2
        /\ drawn[g][Len(drawn[g])].input_inds = <<>>
        /\ gen[g].lists.batch_n = batch_limit.whole
        /\ ~batch_limit.frac
        /\ emitted[g] = <<>>

\* C14: before each draw of a pass and after the last one, the cached
\* minimum of every Cloud is the smallest value of its potentials.
C14_CachedMinIsMin ==
    \A s \in Splits :
        /\ Len(min_potentials[s]) = Len(potentials[s])
        /\ \A c \in 1..Len(potentials[s]) :
             /\ \E k \in 1..Len(potentials[s][c]) :
                    min_potentials[s][c] = potentials[s][c][k]
             /\ \A k \in 1..Len(potentials[s][c]) :
                    min_potentials[s][c] <= potentials[s][c][k]

\* a pass is over whose draws raised the minimum of a Cloud of several
\* points above every initial value
C14_Witness ==
    \E g \in Gens :
        /\ gen[g].pc = "done"
        /\ Len(drawn[g]) >= 2
        /\ \E c \in 1..Len(potentials[GenSplit(g)]) :
             /\ Len(potentials[GenSplit(g)][c]) >= 2
             /\ min_potentials[GenSplit(g)][c] >= FreshBound

\* C15: calibrate_neighbors terminates.  Its loop is left as soon as every
\* layer has samples_threshold samples, and at the latest after the end of
\* the data, which is signalled once and is no error: the limits are
\* assigned then.  Any other failure ends the call with the exception and
\* without assigning limits.
C15_CalibrationTerminates ==
    /\ <>(cal.pc \in {"done", "raised"})
    /\ [](cal.epoch <= 1)
    /\ [][cal.pc = "loop" =>
            /\ (\A l \in 1..num_layers :
                    SumSeq(cal.neighb_hists[l]) >= samples_threshold)
                  => cal'.pc = "done"
            /\ cal.epoch >= 1 => cal'.pc = "done"
            /\ cal'.epoch # cal.epoch =>
                  /\ cal'.pc = "loop"
                  /\ cal'.neighb_hists = cal.neighb_hists
            /\ cal'.pc = "raised" =>
                  neighborhood_limits' = neighborhood_limits
            /\ cal'.pc = "done" =>
                  neighborhood_limits' =
                      [l \in 1..num_layers |-> Percentile(cal.neighb_hists[l])]]_vars

\* the loop was left at the end of the data, a layer being short of
\* samples_threshold samples, and the limits were assigned
C15_Witness ==
    /\ cal.pc = "done"
    /\ cal.epoch = 1
    /\ cal.training_step >= 1
    /\ \E l \in 1..num_layers : SumSeq(cal.neighb_hists[l]) < samples_threshold
    /\ neighborhood_limits # InitialLimits

\* C16 as stated: for every num_layers >= 1 the call returns, having made
\* num_layers - 1 grid subsamplings; it returns num_layers point sets, and
\* the last level has its neighbors among its own points, no pooling
\* matrix, and is the support of no upsampling matrix.
C16_LayerCascade ==
    seg.pc \notin {"idle", "first", "loop"} =>
        LET n == seg.downsample_times + 1
        IN  /\ seg.pc = "done"
            /\ seg.subsamplings = n - 1
            /\ Len(seg.input_points) = n
            /\ \A k \in 1..n : seg.input_points[k].kind = "points"
            /\ seg.input_neighbors[n].kind = "neighbors"
            /\ seg.input_neighbors[n].q = seg.input_points[n].q
            /\ seg.input_neighbors[n].s = seg.input_points[n].q
            /\ seg.input_pools[n] = Zeros
            /\ \A k \in 1..n : seg.input_upsamples[k].kind = "neighbors" =>
                                  seg.input_upsamples[k].layer < n - 1

RECURSIVE SplitBy(_, _)
\* the rows of a stacked array, stack by stack
SplitBy(rows, lengths) ==
    IF lengths = <<>> THEN <<>>
    ELSE <<SubSeq(rows, 1, Head(lengths))>>
            \o SplitBy(SubSeq(rows, Head(lengths) + 1, Len(rows)), Tail(lengths))

RECURSIVE RegionsOf(_)
\* the Regions of a sequence of Batches: cloud id and point indices
RegionsOf(batches) ==
    IF batches = <<>> THEN <<>>
    ELSE LET b == Head(batches)
             inds == SplitBy(b.inds, b.lengths)
         IN  [j \in 1..Len(b.lengths) |-> <<b.clouds[j], inds[j], b.lengths[j]>>]
                \o RegionsOf(Tail(batches))

NonEmptyDrawn(ds) ==
    LET ne == SelectSeq(ds, LAMBDA d : d.input_inds # <<>>)
    IN  [j \in 1..Len(ne) |-> <<ne[j].cloud_ind, ne[j].input_inds, Len(ne[j].input_inds)>>]

\* C18: when a pass is over, the Regions of its Batches, taken Batch after
\* Batch in the order of emission, are the non-empty Regions that were
\* drawn, in the order of the draws: none is missing, repeated, split or
\* moved.
C18_RegionsConserved ==
    \A g \in Gens :
        gen[g].pc = "done" => RegionsOf(emitted[g]) = NonEmptyDrawn(drawn[g])

\* a finished pass of two Batches, the first of two Regions, in which an
\* empty Region was drawn as well
C18_Witness ==
    \E g \in Gens :
        /\ gen[g].pc = "done"
        /\ Len(emitted[g]) = 2
        /\ Len(emitted[g][1].lengths) = 2
        /\ emitted[g][1].inds # emitted[g][2].inds
        /\ \E j \in 1..Len(drawn[g]) : drawn[g][j].input_inds = <<>>

\* C19: a draw changes potentials at indices of its radius query in the
\* selected Cloud only, among them the indices that the subsampling then
\* drops, and only the cached minimum of that Cloud; every other Cloud of
\* the split and every other split keep their potentials and minima.
C19_DrawFrame ==
    [][\A g \in Gens :
         Len(drawn'[g]) = Len(drawn[g]) + 1 =>
           LET d == drawn'[g][Len(drawn'[g])]
               s == GenSplit(g)
               points == input_trees[s][d.cloud_ind]
           IN  /\ d.query = RadiusQuery(points, d.pick_point)
               /\ \A sp \in Splits : \A c \in 1..Len(potentials[sp]) :
                    (sp # s \/ c # d.cloud_ind) =>
                       /\ potentials'[sp][c] = potentials[sp][c]
                       /\ min_potentials'[sp][c] = min_potentials[sp][c]
               /\ \A k \in 1..Len(points) :
                    /\ k \notin d.query =>
                          potentials'[s][d.cloud_ind][k] = potentials[s][d.cloud_ind][k]
                    /\ (k \in d.query /\ Dist2(points, k, d.pick_point) < R2) =>
                          potentials'[s][d.cloud_ind][k] > potentials[s][d.cloud_ind][k]]_vars

\* the last draw changed the potential of a point that the subsampling
\* dropped, in a split of two Clouds, and left a point outside its query
C19_Witness ==
    \E g \in Gens :
        /\ drawn[g] # <<>>
        /\ LET d == drawn[g][Len(drawn[g])]
               s == GenSplit(g)
           IN  /\ Len(potentials[s]) >= 2
               /\ \E k \in d.query :
                    /\ \A j \in 1..Len(d.input_inds) : d.input_inds[j] # k
                    /\ potentials[s][d.cloud_ind][k] >= FreshBound
               /\ \E k \in 1..Len(potentials[s][d.cloud_ind]) : k \notin d.query

\* C17 as stated: every recorded size is the size of the radius query made
\* at the noise-perturbed copy of the sampled point.
C17_QueryAtPerturbed ==
    bc.pc = "sample" =>
        \A j \in 1..Len(bc.samples) :
            bc.samples[j].size =
                Cardinality(RadiusQuery(input_trees[CalibSplit][bc.tree - 1],
                                        bc.samples[j].rand_point))

====
